---- MODULE Spec2Model ----
(***************************************************************************)
(* Model of the RAG pipeline of app/ragg_manager.py (RAGManager) and of    *)
(* the context trimmer of app/utils.py (trim_to_token_limit).              *)
(*                                                                         *)
(* One answer_query call is a process that moves from one suspension       *)
(* point to the next: an outbound POST in flight, or the retry loop's      *)
(* sleep between two attempts.  The retry loop is tenacity's AsyncRetrying *)
(* as _make_retry configures it: retry_if_exception_type, wait_exponential *)
(* and stop_after_attempt, with reraise left at its default (False).       *)
(*                                                                         *)
(* Texts are run-length encoded: a text is a sequence of runs [sym, n],    *)
(* n >= 1, no two adjacent runs with the same symbol, so that equal texts  *)
(* are equal values and a document of several thousand characters stays a  *)
(* small value.  Token lists use the same encoding.                        *)
(***************************************************************************)
EXTENDS Integers, Sequences, FiniteSets, TLC

VARIABLES
    retry_attempts,   \* self.retry_attempts
    retry_min_wait,   \* self.retry_min_wait
    retry_max_wait,   \* self.retry_max_wait
    corpus,           \* the result items the tenant's search index can return
    call,             \* per answer_query call: its frame and its history
    trimIn,           \* trim_to_token_limit harness: the arguments
    trimOut,          \* trim_to_token_limit harness: the returned text
    app               \* app.state and the frame of lifespan's startup

vars == <<retry_attempts, retry_min_wait, retry_max_wait, corpus, call, trimIn, trimOut, app>>

(***************************************************************************)
(* Bounds of the model.                                                    *)
(***************************************************************************)
MaxAttempts == 3      \* retry_attempts ranges over 0..MaxAttempts
MaxMinWait == 2       \* retry_min_wait ranges over 0..MaxMinWait
MaxMaxWait == 3       \* retry_max_wait ranges over 0..MaxMaxWait
MaxDocs == 2          \* a search response carries at most MaxDocs items
LongDocLen == 6500    \* characters of the long document of the corpus
MaxTextLen == 5       \* harness texts have at most MaxTextLen characters
MaxBudget == 2        \* harness budgets range over 0..MaxBudget
MergeWidth == 2       \* the tokenizer merges up to MergeWidth equal letters
ConcurrentAttempts == 2   \* retry_attempts of two interleaved calls: 1..ConcurrentAttempts

(***************************************************************************)
(* Program constants.                                                      *)
(***************************************************************************)
DefaultRetryMinWait == 1
DefaultRetryMaxWait == 8
ContextTokenBudget == 3000
NaiveTrimChars == 7000
CharsPerToken == 4
SearchK == 5
AnswerMaxTokens == 400
EmbeddingTimeout == 15
SearchTimeout == 20
ChatTimeout == 30

Max(a, b) == IF a >= b THEN a ELSE b
Min(a, b) == IF a <= b THEN a ELSE b

RECURSIVE Pow2(_)
Pow2(k) == IF k <= 0 THEN 1 ELSE 2 * Pow2(k - 1)

(***************************************************************************)
(* Run-length encoded sequences (Python str and list values).              *)
(***************************************************************************)
Run(s, k) == [sym |-> s, n |-> k]

RECURSIVE RLen(_)
\* len(x)
RLen(t) == IF t = <<>> THEN 0 ELSE Head(t).n + RLen(Tail(t))

\* x + y
RConcat(s, t) ==
    IF s = <<>> THEN t
    ELSE IF t = <<>> THEN s
    ELSE IF s[Len(s)].sym = t[1].sym
         THEN SubSeq(s, 1, Len(s) - 1)
                \o <<Run(t[1].sym, s[Len(s)].n + t[1].n)>>
                \o Tail(t)
         ELSE s \o t

RECURSIVE RDrop(_, _)
\* x without its first k elements, 0 <= k
RDrop(t, k) ==
    IF k <= 0 \/ t = <<>> THEN t
    ELSE IF Head(t).n <= k THEN RDrop(Tail(t), k - Head(t).n)
    ELSE <<Run(Head(t).sym, Head(t).n - k)>> \o Tail(t)

\* Python's x[k:] for any integer k: a negative k counts from the end, and
\* the start is clamped to 0..len(x).  x[-0:] is x[0:], the whole of x.
PySliceFrom(t, k) ==
    LET L == RLen(t)
        start == IF k < 0 THEN Max(L + k, 0) ELSE Min(k, L)
    IN RDrop(t, start)

RECURSIVE FromChars(_)
\* the text spelled by a sequence of characters
FromChars(cs) ==
    IF cs = <<>> THEN <<>>
    ELSE RConcat(<<Run(Head(cs), 1)>>, FromChars(Tail(cs)))

\* t is a suffix of s
IsSuffix(t, s) == RLen(t) <= RLen(s) /\ RDrop(s, RLen(s) - RLen(t)) = t

(***************************************************************************)
(* The tokenizer behind tiktoken's enc.encode / enc.decode: a token covers *)
(* a chunk of up to MergeWidth equal characters; decoding concatenates the *)
(* chunks.  A token list is run-length encoded like a text.                *)
(***************************************************************************)
Tok(c, w) == [ch |-> c, w |-> w]

EncodeRun(r) ==
    LET full == r.n \div MergeWidth
        rest == r.n % MergeWidth
    IN (IF full > 0 THEN <<Run(Tok(r.sym, MergeWidth), full)>> ELSE <<>>)
         \o (IF rest > 0 THEN <<Run(Tok(r.sym, rest), 1)>> ELSE <<>>)

RECURSIVE Encode(_)
\* enc.encode(text)
Encode(t) == IF t = <<>> THEN <<>> ELSE EncodeRun(Head(t)) \o Encode(Tail(t))

RECURSIVE Decode(_)
\* enc.decode(toks)
Decode(toks) ==
    IF toks = <<>> THEN <<>>
    ELSE RConcat(<<Run(Head(toks).sym.ch, Head(toks).sym.w * Head(toks).n)>>,
                 Decode(Tail(toks)))

\* the try branch of trim_to_token_limit: tiktoken imported and encoded
TrimByTokens(text, max_tokens) ==
    LET toks == Encode(text)
    IN IF RLen(toks) <= max_tokens
       THEN text
       ELSE Decode(PySliceFrom(toks, -max_tokens))

\* Faulty variant of TrimByChars: the characters-per-token ratio is left out.
TrimByCharsNoRatio(text, max_tokens) ==
    IF RLen(text) <= max_tokens
    THEN text
    ELSE PySliceFrom(text, -max_tokens)

\* the except branch of trim_to_token_limit: naive character trim
TrimByChars(text, max_tokens) ==
    LET approx_chars == max_tokens * CharsPerToken
    IN IF RLen(text) <= approx_chars
       THEN text
       ELSE PySliceFrom(text, -approx_chars)

\* trim_to_token_limit(text, max_tokens); tiktoken_ok says whether the try
\* branch ran to its end (tiktoken imports and encodes) or raised.
trim_to_token_limit(text, max_tokens, tiktoken_ok) ==
    IF tiktoken_ok
    THEN TrimByTokens(text, max_tokens)
    ELSE TrimByChars(text, max_tokens)

\* The trimmer's own estimate of the token count of a text.
EstimatedTokens(text, tiktoken_ok) ==
    IF tiktoken_ok
    THEN RLen(Encode(text))
    ELSE (RLen(text) + CharsPerToken - 1) \div CharsPerToken

(***************************************************************************)
(* The retry policy built by _make_retry.                                  *)
(***************************************************************************)
Stages == {"embed", "search", "complete"}

NoExc == [type |-> "none", stage |-> "none", cause |-> "none",
          attempt |-> 0, wrapped |-> "none"]

\* raise RAGError(...) of a stage attempt; cause is what the attempt met
RAGError(s, why, k) ==
    [type |-> "RAGError", stage |-> s, cause |-> why, attempt |-> k, wrapped |-> "none"]

\* tenacity.RetryError(last_attempt): what AsyncRetrying raises, from the
\* last attempt's exception, when stop says so and reraise is False
RetryError(e) == [e EXCEPT !.type = "RetryError", !.wrapped = e.type]

\* Faulty variant of IsRetryable: retry_if_exception_type(Exception).
IsRetryableAny(e) == e.type # "none"

\* retry_if_exception_type((aiohttp.ClientError, asyncio.TimeoutError, RAGError))
IsRetryable(e) == e.type \in {"ClientError", "TimeoutError", "RAGError"}

\* Faulty variant of ShouldStop: stops one attempt late.
ShouldStopLate(attempt_number, max_attempt_number) == attempt_number > max_attempt_number

\* stop_after_attempt(self.retry_attempts): attempt_number >= max_attempt_number
ShouldStop(attempt_number, max_attempt_number) == attempt_number >= max_attempt_number

\* Faulty variant of WaitExponential: min_wait used as the multiplier,
\* wait_exponential(multiplier=min_wait, max=max_wait).
WaitExponentialScaled(attempt_number, min_wait, max_wait) ==
    Min(max_wait, min_wait * Pow2(attempt_number - 1))

\* wait_exponential(min=min_wait, max=max_wait), multiplier 1, exp_base 2:
\* max(max(0, min), min(multiplier * exp_base ** (attempt_number - 1), max))
WaitExponential(attempt_number, min_wait, max_wait) ==
    Max(Max(0, min_wait), Min(Pow2(attempt_number - 1), max_wait))

\* What an attempt can meet besides a usable 200 response.
\*   status:    a response whose status is not 200
\*   timeout:   asyncio.TimeoutError, the attempt's ClientTimeout expired
\*   transport: aiohttp.ClientError
\*   malformed: a 200 response whose body lacks the path the stage reads
FailureCauses == {"status", "timeout", "transport", "malformed"}

MalformedType(s) == IF s = "search" THEN "AttributeError" ELSE "KeyError"

\* The exception that leaves the body of `with attempt:` in stage s: the
\* except clauses turn TimeoutError and ClientError into RAGError, a status
\* other than 200 raises RAGError, anything else passes through as it is.
StageError(s, why, k) ==
    IF why \in {"status", "timeout", "transport"}
    THEN RAGError(s, why, k)
    ELSE [type |-> MalformedType(s), stage |-> s, cause |-> why,
          attempt |-> k, wrapped |-> "none"]

(***************************************************************************)
(* The data of the pipeline.                                               *)
(***************************************************************************)
Calls == {"c1", "c2"}
Queries == {"hello world"}
Embeddings == {"v1", "v2"}          \* embedding vectors, opaque to the code
Answers == {"answered text", "other answer"}

DocShort == FromChars(<<"d", "o", "c", "1">>)
DocLong == <<Run("x", LongDocLen)>>

\* A result item of the search response: it carries a content field or not.
Item(t) == [has_content |-> TRUE, content |-> t]
ItemNoContent == [has_content |-> FALSE, content |-> <<>>]
Items == {Item(DocShort), Item(DocLong), ItemNoContent}

SeqsUpTo(S, k) == UNION {[1..j -> S] : j \in 0..k}

\* doc.get("content", "")
ItemContent(item) == IF item.has_content THEN item.content ELSE <<>>

\* Faulty variant of ParseDocs: an item without content is dropped.
ParseDocsSkipMissing(items) ==
    LET kept == SelectSeq(items, LAMBDA item : item.has_content)
    IN [i \in 1..Len(kept) |-> kept[i].content]

\* [doc.get("content", "") for doc in results.get("value", [])]
ParseDocs(items) == [i \in 1..Len(items) |-> ItemContent(items[i])]

Separator == <<Run("\n", 2)>>

RECURSIVE JoinDocs(_)
\* "\n\n".join(docs)
JoinDocs(docs) ==
    IF docs = <<>> THEN <<>>
    ELSE IF Len(docs) = 1 THEN docs[1]
    ELSE RConcat(docs[1], RConcat(Separator, JoinDocs(Tail(docs))))

NoDocsContext ==
    FromChars(<<"N", "o", " ", "r", "e", "l", "e", "v", "a", "n", "t", " ",
                "d", "o", "c", "u", "m", "e", "n", "t", "s", " ",
                "f", "o", "u", "n", "d", ".">>)

\* Faulty variant of BuildContext: no literal for an empty retrieval.
BuildContextNoFallback(docs) == JoinDocs(docs)

\* answer_query: "\n\n".join(docs) if docs else "No relevant documents found."
BuildContext(docs) == IF docs # <<>> THEN JoinDocs(docs) ELSE NoDocsContext

\* How the trimming step of generate_answer can run: the helper with
\* tiktoken, the helper with its character fallback, or, when the helper
\* cannot be imported, generate_answer's own naive trim.
TrimModes == {"tiktoken", "chars", "naive"}

\* generate_answer's trimming of the context
TrimContext(context, mode) ==
    IF mode = "naive"
    THEN IF RLen(context) > NaiveTrimChars
         THEN PySliceFrom(context, -NaiveTrimChars)
         ELSE context
    ELSE trim_to_token_limit(context, ContextTokenBudget, mode = "tiktoken")

NoRequest == [stage |-> "none"]
EmbedRequest(q) == [stage |-> "embed", input |-> q]
SearchRequest(vec) ==
    [stage |-> "search", vector |-> vec, fields |-> "contentVector",
     k |-> SearchK, select |-> "content"]
CompleteRequest(q, context) ==
    [stage |-> "complete", context |-> context, question |-> q,
     max_tokens |-> AnswerMaxTokens]

NoResult == [ok |-> FALSE, answer |-> "none", sources |-> <<>>]

NoResponse == [status |-> 0, detail |-> "none"]

\* chat_with_client: `except RAGError` answers 502 with str(re), `except
\* Exception` answers 500 "Internal server error"
ErrorResponse(e) ==
    IF e.type = "RAGError" THEN [status |-> 502, detail |-> e.cause]
    ELSE [status |-> 500, detail |-> "Internal server error"]

\* chat_with_client: return RAGResponse(answer=..., sources=..., ...)
OkResponse == [status |-> 200, detail |-> "RAGResponse"]

IdleCall ==
    [phase |-> "idle",            \* idle, inflight, sleep, done, failed
     stage |-> "none",            \* the stage whose retry loop is running
     query |-> "none",
     attempt_number |-> 0,        \* retry_state.attempt_number
     outcome |-> NoExc,           \* retry_state.outcome, when it is a failure
     embedding |-> "none",        \* search_documents' local
     docs |-> <<>>,               \* answer_query's local
     request |-> NoRequest,       \* the payload of the latest POST
     timeout |-> 0,               \* ClientTimeout(total=...) of the latest POST
     result |-> NoResult,         \* what answer_query returned
     error |-> NoExc,             \* what answer_query raised
     response |-> NoResponse,     \* what chat_with_client answered
     inflight |-> {},             \* history: stages with a POST outstanding
     posts |-> [s \in Stages |-> 0],      \* history: POSTs issued per stage
     sleeps |-> [s \in Stages |-> <<>>],  \* history: delays slept per stage
     expired |-> [s \in Stages |-> 0],    \* history: POSTs that timed out per stage
     succeeded |-> {},            \* history: stages that returned
     hits |-> <<>>,               \* history: items of the search response
     reply |-> "none"]            \* history: content of the chat response

(***************************************************************************)
(* The steps of a call, from one suspension point to the next.             *)
(***************************************************************************)

\* self.embedding_timeout, self.search_timeout, self.chat_timeout
StageTimeout(s) ==
    IF s = "embed" THEN EmbeddingTimeout
    ELSE IF s = "search" THEN SearchTimeout
    ELSE ChatTimeout

\* the seconds the call has lost to POSTs that timed out
TimeLost(st) ==
    st.expired["embed"] * EmbeddingTimeout
        + st.expired["search"] * SearchTimeout
        + st.expired["complete"] * ChatTimeout

\* Faulty variant of PostAttempt: the POST gets what an earlier timeout left
\* of the stage's time.
PostAttemptSharedBudget(st) ==
    [st EXCEPT !.phase = "inflight",
               !.inflight = @ \cup {st.stage},
               !.timeout = Max(0, StageTimeout(st.stage) - TimeLost(st)),
               !.posts[st.stage] = @ + 1]

\* self._session.post(..., timeout=aiohttp.ClientTimeout(total=...)) of the
\* running stage is issued and awaited
PostAttempt(st) ==
    [st EXCEPT !.phase = "inflight",
               !.inflight = @ \cup {st.stage},
               !.timeout = StageTimeout(st.stage),
               !.posts[st.stage] = @ + 1]

\* Faulty variant of EnterStage: one AsyncRetrying, built once, serves every
\* call, so a stage starts at the attempt number the calls have reached.
EnterStageSharedRetrying(st, s, req) ==
    LET reached == {call[c].attempt_number : c \in DOMAIN call}
        highest == CHOOSE n \in reached : \A m \in reached : n >= m
    IN PostAttempt([st EXCEPT !.stage = s, !.attempt_number = Max(1, highest),
                              !.outcome = NoExc, !.request = req])

\* `async for attempt in self._retry_factory()` of stage s: a new
\* AsyncRetrying, whose first attempt posts req
EnterStage(st, s, req) ==
    PostAttempt([st EXCEPT !.stage = s, !.attempt_number = 1,
                           !.outcome = NoExc, !.request = req])

\* the POST of the running stage came back and the stage returns
Returned(st) ==
    [st EXCEPT !.inflight = @ \ {st.stage}, !.succeeded = @ \cup {st.stage}]

\* Faulty variant of StartQuery: the embedding is not awaited, the search is
\* posted while the embedding request is still outstanding.
StartQueryNoAwait(q) ==
    EnterStage(EnterStage([IdleCall EXCEPT !.query = q], "embed", EmbedRequest(q)),
               "search", SearchRequest("none"))

\* answer_query(query) up to its first await: search_documents calls
\* generate_embedding, which posts its first attempt
StartQuery(q) == EnterStage([IdleCall EXCEPT !.query = q], "embed", EmbedRequest(q))

\* generate_embedding returns vec; search_documents builds its payload from
\* it and posts its first attempt
AfterEmbed(st, vec) ==
    EnterStage([Returned(st) EXCEPT !.embedding = vec], "search", SearchRequest(vec))

\* Faulty variant of AfterSearch: the trimmed context replaces the documents.
AfterSearchKeepsTrimmed(st, items, mode) ==
    LET docs == ParseDocs(items)
        context == BuildContext(docs)
        trimmed == TrimContext(context, mode)
    IN EnterStage([Returned(st) EXCEPT !.hits = items,
                                       !.docs = IF trimmed = context THEN docs
                                                ELSE <<trimmed>>,
                                       !.embedding = "none"],
                  "complete", CompleteRequest(st.query, trimmed))

\* search_documents returns the parsed documents; answer_query builds the
\* context; generate_answer trims it and posts its first attempt
AfterSearch(st, items, mode) ==
    LET docs == ParseDocs(items)
        context == BuildContext(docs)
    IN EnterStage([Returned(st) EXCEPT !.hits = items, !.docs = docs,
                                       !.embedding = "none"],
                  "complete",
                  CompleteRequest(st.query, TrimContext(context, mode)))

\* Faulty variant of AfterComplete: a completion that needed a retry ends in
\* the failure of its first attempt.
AfterCompleteReportsEarlierFailure(st, answer) ==
    IF st.sleeps["complete"] # <<>>
    THEN [Returned(st) EXCEPT !.phase = "failed", !.reply = answer,
                              !.error = RAGError("complete", "status", 1),
                              !.response = ErrorResponse(RAGError("complete", "status", 1))]
    ELSE [Returned(st) EXCEPT !.phase = "done", !.reply = answer,
                              !.response = OkResponse,
                              !.result = [ok |-> TRUE, answer |-> answer,
                                          sources |-> st.docs]]

\* Faulty variant of AfterComplete: the context sent is returned as the sources.
AfterCompleteReturnsContext(st, answer) ==
    [Returned(st) EXCEPT !.phase = "done", !.reply = answer,
                         !.result = [ok |-> TRUE, answer |-> answer,
                                     sources |-> <<st.request.context>>]]

\* generate_answer returns the content of the first choice; answer_query
\* returns (answer, docs); chat_with_client answers with them
AfterComplete(st, answer) ==
    [Returned(st) EXCEPT !.phase = "done", !.reply = answer,
                         !.response = OkResponse,
                         !.result = [ok |-> TRUE, answer |-> answer,
                                     sources |-> st.docs]]

\* an exception leaves the retry loop and, nothing catching it, leaves
\* answer_query; chat_with_client turns it into an HTTPException
Raise(st, e) ==
    [st EXCEPT !.phase = "failed", !.error = e, !.response = ErrorResponse(e)]

\* Faulty variant of OnExhausted: the loop sleeps once more before it gives up.
OnExhaustedAfterWait(st, e) ==
    Raise([st EXCEPT !.sleeps[st.stage] =
                         Append(@, WaitExponential(st.attempt_number,
                                                   retry_min_wait, retry_max_wait))],
          RetryError(e))

\* Faulty variant of OnExhausted: a search that ran out of attempts is
\* answered from an empty retrieval.
OnExhaustedRecover(st, e) ==
    IF st.stage = "search"
    THEN EnterStage([st EXCEPT !.docs = <<>>, !.embedding = "none"], "complete",
                    CompleteRequest(st.query, NoDocsContext))
    ELSE Raise(st, RetryError(e))

\* AsyncRetrying with stop true: raise RetryError(fut) from fut.exception()
OnExhausted(st, e) == Raise(st, RetryError(e))

\* Faulty variant of OnRetry: the sleep is never resumed from.
OnRetryNeverWakes(st) ==
    [st EXCEPT !.phase = "asleep",
               !.outcome = NoExc,
               !.attempt_number = @ + 1,
               !.sleeps[st.stage] =
                   Append(@, WaitExponential(st.attempt_number,
                                             retry_min_wait, retry_max_wait))]

\* AsyncRetrying with stop false: DoSleep; prepare_for_next_attempt() clears
\* the outcome and counts the next attempt, then the loop sleeps
OnRetry(st) ==
    [st EXCEPT !.phase = "sleep",
               !.outcome = NoExc,
               !.attempt_number = @ + 1,
               !.sleeps[st.stage] =
                   Append(@, WaitExponential(st.attempt_number,
                                             retry_min_wait, retry_max_wait))]

\* The attempt of the running stage fails: the exception leaves `with
\* attempt:`, which records it, and AsyncRetrying.iter decides.
AfterFailure(st, why) ==
    LET e == StageError(st.stage, why, st.attempt_number)
        st1 == [st EXCEPT !.inflight = @ \ {st.stage}, !.outcome = e,
                          !.expired[st.stage] = IF why = "timeout" THEN @ + 1 ELSE @]
    IN IF ~IsRetryable(e) THEN Raise(st1, e)
       ELSE IF ShouldStop(st1.attempt_number, retry_attempts) THEN OnExhausted(st1, e)
       ELSE OnRetry(st1)

Running(c, s) == call[c].phase = "inflight" /\ call[c].stage = s

Frame == <<retry_attempts, retry_min_wait, retry_max_wait, corpus, trimIn, trimOut, app>>

AnswerQuery(c) ==
    /\ call[c].phase = "idle"
    /\ \E q \in Queries : call' = [call EXCEPT ![c] = StartQuery(q)]
    /\ UNCHANGED Frame

EmbedReturns(c) ==
    /\ Running(c, "embed")
    /\ \E vec \in Embeddings : call' = [call EXCEPT ![c] = AfterEmbed(@, vec)]
    /\ UNCHANGED Frame

SearchReturns(c) ==
    /\ Running(c, "search")
    /\ \E items \in SeqsUpTo(corpus, MaxDocs), mode \in TrimModes :
           call' = [call EXCEPT ![c] = AfterSearch(@, items, mode)]
    /\ UNCHANGED Frame

CompleteReturns(c) ==
    /\ Running(c, "complete")
    /\ \E answer \in Answers : call' = [call EXCEPT ![c] = AfterComplete(@, answer)]
    /\ UNCHANGED Frame

AttemptFails(c) ==
    /\ call[c].phase = "inflight"
    /\ \E why \in FailureCauses : call' = [call EXCEPT ![c] = AfterFailure(@, why)]
    /\ UNCHANGED Frame

\* await self.sleep(do) is over: the next attempt is made
SleepEnds(c) ==
    /\ call[c].phase = "sleep"
    /\ call' = [call EXCEPT ![c] = PostAttempt(@)]
    /\ UNCHANGED Frame

CallStep(c) ==
    \/ AnswerQuery(c)
    \/ EmbedReturns(c)
    \/ SearchReturns(c)
    \/ CompleteReturns(c)
    \/ AttemptFails(c)
    \/ SleepEnds(c)

(***************************************************************************)
(* The harness of trim_to_token_limit.                                     *)
(***************************************************************************)
NoTrimIn == [text |-> <<>>, max_tokens |-> 0, tiktoken_ok |-> FALSE, used |-> FALSE]
NoTrimOut == [returned |-> FALSE, text |-> <<>>]

HarnessTexts == {FromChars(cs) : cs \in SeqsUpTo({"a", "b"}, MaxTextLen)}

ApplyTrim ==
    /\ trimIn.used
    /\ ~trimOut.returned
    /\ trimOut' = [returned |-> TRUE,
                   text |-> trim_to_token_limit(trimIn.text, trimIn.max_tokens,
                                                trimIn.tiktoken_ok)]
    /\ UNCHANGED <<retry_attempts, retry_min_wait, retry_max_wait, corpus, call, trimIn, app>>

(***************************************************************************)
(* Startup: the tenant registry of app/main.py (lifespan), the lookup of   *)
(* app/deps.py (get_rag_manager) and the connectivity validator of         *)
(* app/azure_checks.py (validate_azure_endpoints).                         *)
(***************************************************************************)
Tenants == {"A", "B"}
TenantOrder == <<"A", "B">>
UnknownIds == {"ghost"}

\* the keys of a dict, in the order the dict iterates them
Keys(f) == SelectSeq(TenantOrder, LAMBDA t : t \in DOMAIN f)

EmptyDict == [t \in {} |-> TRUE]

\* d[k] = v
Put(d, k, v) == [x \in DOMAIN d \cup {k} |-> IF x = k THEN v ELSE d[x]]

\* A tenant's entry of clients.json.  "" stands for a field that is missing
\* or empty; retry_attempts is "absent", or the text read for it.
Cfg(se, sk, ix, oe, ra) ==
    [search_endpoint |-> se, search_api_key |-> sk, index_name |-> ix,
     openai_endpoint |-> oe, openai_api_key |-> "", deployment_name |-> "",
     retry_attempts |-> ra]

CfgShapes ==
    {Cfg("https://search", "search-key", "index", "", "absent"),
     Cfg("", "search-key", "index", "", "2"),
     Cfg("https://search", "", "index", "", "absent"),
     Cfg("https://search", "search-key", "index", "", "three")}

\* the fields a manager cannot work without
RequiredFields ==
    {"search_endpoint", "search_api_key", "index_name",
     "openai_endpoint", "openai_api_key", "deployment_name"}

DefaultRetryAttempts == 3

\* int(v) raises ValueError unless v reads as a number
IntParses(v) == v \in {"absent", "2"}

\* int(client_config.get("retry_attempts", retry_attempts))
IntOf(v) == IF v = "absent" THEN DefaultRetryAttempts ELSE 2

\* RAGManager.__init__ raises: only the int() conversions can
CtorRaises(cfg) == ~IntParses(cfg.retry_attempts)

\* RAGManager(cfg, session=...): the fields are taken with client_config.get,
\* whatever they hold
NewManager(cfg) ==
    [search_endpoint |-> cfg.search_endpoint,
     search_api_key |-> cfg.search_api_key,
     index_name |-> cfg.index_name,
     openai_endpoint |-> cfg.openai_endpoint,
     openai_api_key |-> cfg.openai_api_key,
     deployment_name |-> cfg.deployment_name,
     retry_attempts |-> IntOf(cfg.retry_attempts)]

\* lifespan: cfg["openai_endpoint"] = openai_endpoint, and so on
Inject(cfg) ==
    [cfg EXCEPT !.openai_endpoint = "https://openai",
                !.openai_api_key = "openai-key",
                !.deployment_name = "deployment"]

\* What a probe can meet: a response with a status, a timeout, a
\* connection error, or no request at all (no openai_endpoint).
Outcome(k, code) == [kind |-> k, status |-> code]
NoOutcome == Outcome("none", 0)
ProbeOutcomes ==
    {Outcome("status", code) : code \in {200, 401, 403, 404, 500}}
        \cup {Outcome("timeout", 0), Outcome("connection_error", 0)}

NoTask == [state |-> "none", outcome |-> NoOutcome, value |-> FALSE]
NoLookup == [id |-> "none", status |-> 0, detail |-> "none"]

NoApp ==
    [phase |-> "off",             \* off, boot, direct, validating, serving,
                                  \* crashed, returned, raised
     caller |-> "none",           \* who called the validator: lifespan, direct
     env |-> [openai_ok |-> TRUE, validate |-> FALSE,
              deployment_env |-> "dev", check_timeout_ok |-> TRUE],
     clients_config |-> EmptyDict,  \* app.state.clients_config
     rag_managers |-> EmptyDict,    \* app.state.rag_managers
     failed_init |-> {},          \* tenants logged "Failed to initialize"
     tasks |-> EmptyDict,         \* the validator's tasks
     pending |-> <<>>,            \* tenants whose task is still to be awaited
     results |-> EmptyDict,       \* the validator's results
     crash |-> "none",            \* why lifespan raised
     lookup |-> NoLookup]         \* the latest get_rag_manager outcome

\* Faulty variant of ConstructAll: the try encloses the loop, so the first
\* failing tenant ends it.
RECURSIVE ConstructAllAbortOnFailure(_, _)
ConstructAllAbortOnFailure(a, keys) ==
    IF keys = <<>> THEN a
    ELSE LET cid == Head(keys)
             cfg == Inject(a.clients_config[cid])
             a1 == [a EXCEPT !.clients_config[cid] = cfg]
         IN IF CtorRaises(cfg)
            THEN [a1 EXCEPT !.failed_init = @ \cup {cid}]
            ELSE ConstructAllAbortOnFailure(
                     [a1 EXCEPT !.rag_managers = Put(@, cid, NewManager(cfg))],
                     Tail(keys))

RECURSIVE ConstructAll(_, _)
\* lifespan: `for client_id, cfg in clients.items()`, one RAGManager per
\* tenant, a failing construction logged and skipped
ConstructAll(a, keys) ==
    IF keys = <<>> THEN a
    ELSE LET cid == Head(keys)
             cfg == Inject(a.clients_config[cid])
             a1 == [a EXCEPT !.clients_config[cid] = cfg]
             a2 == IF CtorRaises(cfg)
                   THEN [a1 EXCEPT !.failed_init = @ \cup {cid}]
                   ELSE [a1 EXCEPT !.rag_managers = Put(@, cid, NewManager(cfg))]
         IN ConstructAll(a2, Tail(keys))

\* Faulty variant of Reachable: only a 200 counts.
ReachableOnlyOk(outcome) == outcome.kind = "status" /\ outcome.status = 200

\* _check_client: resp.status == 200 or resp.status == 401 or resp.status == 403
Reachable(outcome) == outcome.kind = "status" /\ outcome.status \in {200, 401, 403}

\* Faulty variant of CreateTasks: only the first tenant's probe is created
\* before the results are awaited.
CreateTasksFirstOnly(a) ==
    LET keys == Keys(a.clients_config)
    IN [a EXCEPT !.tasks = [t \in DOMAIN a.clients_config |->
                               IF keys # <<>> /\ t = Head(keys)
                               THEN [NoTask EXCEPT !.state = "scheduled"]
                               ELSE NoTask],
                 !.pending = keys,
                 !.results = EmptyDict]

\* validate_azure_endpoints: tasks = [asyncio.create_task(...) for cid, cfg
\* in clients_config.items()], every task created before the first await
CreateTasks(a) ==
    [a EXCEPT !.tasks = [t \in DOMAIN a.clients_config |->
                            [NoTask EXCEPT !.state = "scheduled"]],
              !.pending = Keys(a.clients_config),
              !.results = EmptyDict]

RECURSIVE Collect(_)
\* `for cid, task in zip(...)`: results[cid] = bool(await task), as far as
\* the tasks are done
Collect(a) ==
    IF a.pending = <<>> THEN a
    ELSE LET cid == Head(a.pending)
         IN IF a.tasks[cid].state = "done"
            THEN Collect([a EXCEPT !.results = Put(@, cid, a.tasks[cid].value),
                                   !.pending = Tail(@)])
            ELSE a

\* lifespan raises: startup fails
Crash(a, why) == [a EXCEPT !.phase = "crashed", !.crash = why]

\* lifespan reaches its yield: the application serves
Serve(a) == [a EXCEPT !.phase = "serving"]

\* strict deployment: os.getenv("DEPLOYMENT_ENV", "dev").lower() == "prod"
Strict(a) == a.env.deployment_env = "prod"

\* Faulty variant of ValidatorReturns: an unreachable tenant is fatal in any
\* deployment.
ValidatorReturnsAlwaysFatal(a) ==
    IF a.caller = "direct" THEN [a EXCEPT !.phase = "returned"]
    ELSE IF \E t \in DOMAIN a.results : ~a.results[t]
         THEN Crash(a, "validation")
         ELSE Serve(a)

\* validate_azure_endpoints returns results; lifespan, when it is the
\* caller, raises in a strict deployment if a tenant is not ok, the except
\* clause logs and re-raises
ValidatorReturns(a) ==
    IF a.caller = "direct" THEN [a EXCEPT !.phase = "returned"]
    ELSE IF Strict(a) /\ \E t \in DOMAIN a.results : ~a.results[t]
         THEN Crash(a, "validation")
         ELSE Serve(a)

\* validate_azure_endpoints raises (float(os.getenv("AZURE_CHECK_TIMEOUT"))
\* on a value that is no number); lifespan's except clause logs it and
\* re-raises in a strict deployment
ValidatorRaises(a) ==
    IF a.caller = "direct" THEN [a EXCEPT !.phase = "raised"]
    ELSE IF Strict(a) THEN Crash(a, "validator_error") ELSE Serve(a)

\* the awaiting loop runs on as far as it can
Resume(a) ==
    LET b == Collect(a)
    IN IF b.pending = <<>> THEN ValidatorReturns(b)
       ELSE [b EXCEPT !.phase = "validating"]

\* validate_azure_endpoints(clients_config, session) up to its first await
RunValidator(a) ==
    IF ~a.env.check_timeout_ok THEN ValidatorRaises(a)
    ELSE Resume(CreateTasks(a))

\* lifespan up to its first await or its yield
StartupOf(a) ==
    IF ~a.env.openai_ok THEN Crash(a, "config")
    ELSE LET b == ConstructAll([a EXCEPT !.caller = "lifespan"],
                               Keys(a.clients_config))
         IN IF b.env.validate THEN RunValidator(b) ELSE Serve(b)

\* _check_client starts: without an openai_endpoint it returns False, else
\* it issues session.get and waits
TaskStarted(a, t) ==
    IF a.clients_config[t].openai_endpoint = ""
    THEN [a EXCEPT !.tasks[t] = [state |-> "done",
                                 outcome |-> Outcome("no_endpoint", 0),
                                 value |-> FALSE]]
    ELSE [a EXCEPT !.tasks[t].state = "requesting"]

\* _check_client ends: the response's status decides, any exception gives False
TaskDone(a, t, outcome) ==
    [a EXCEPT !.tasks[t] = [state |-> "done", outcome |-> outcome,
                            value |-> Reachable(outcome)]]

\* Faulty variant of GetRagManager: an unknown tenant that is configured
\* gets its manager built on the request path.
GetRagManagerLazy(a, client_id) ==
    IF client_id \in DOMAIN a.rag_managers
    THEN [a EXCEPT !.lookup = [id |-> client_id, status |-> 200, detail |-> "manager"]]
    ELSE IF client_id \in DOMAIN a.clients_config
         THEN [a EXCEPT !.rag_managers =
                            Put(@, client_id, NewManager(a.clients_config[client_id])),
                        !.lookup = [id |-> client_id, status |-> 200,
                                    detail |-> "manager"]]
         ELSE [a EXCEPT !.lookup = [id |-> client_id, status |-> 404,
                                    detail |-> "Client not found"]]

\* get_rag_manager(request, client_id)
GetRagManager(a, client_id) ==
    IF client_id \in DOMAIN a.rag_managers
    THEN [a EXCEPT !.lookup = [id |-> client_id, status |-> 200, detail |-> "manager"]]
    ELSE [a EXCEPT !.lookup = [id |-> client_id, status |-> 404,
                               detail |-> "Client not found"]]

AppFrame == <<retry_attempts, retry_min_wait, retry_max_wait, corpus, call, trimIn, trimOut>>

Startup ==
    /\ app.phase = "boot"
    /\ app' = StartupOf(app)
    /\ UNCHANGED AppFrame

\* the validator called on its own
CallValidator ==
    /\ app.phase = "direct"
    /\ app' = RunValidator([app EXCEPT !.caller = "direct"])
    /\ UNCHANGED AppFrame

TaskRuns(t) ==
    /\ app.phase = "validating"
    /\ t \in DOMAIN app.tasks
    /\ app.tasks[t].state = "scheduled"
    /\ app' = TaskStarted(app, t)
    /\ UNCHANGED AppFrame

ProbeCompletes(t) ==
    /\ app.phase = "validating"
    /\ t \in DOMAIN app.tasks
    /\ app.tasks[t].state = "requesting"
    /\ \E outcome \in ProbeOutcomes : app' = TaskDone(app, t, outcome)
    /\ UNCHANGED AppFrame

\* the task lifespan (or the caller) waits for is done: the loop goes on
AwaitResumes ==
    /\ app.phase = "validating"
    /\ app.pending # <<>>
    /\ app.tasks[Head(app.pending)].state = "done"
    /\ app' = Resume(app)
    /\ UNCHANGED AppFrame

Lookup(id) ==
    /\ app.phase = "serving"
    /\ app' = GetRagManager(app, id)
    /\ UNCHANGED AppFrame

(***************************************************************************)
(* Specifications.                                                         *)
(***************************************************************************)
MainCalls == {"c1"}

\* One call on a tenant with the default backoff bounds and any
\* retry_attempts, against an index that can return any of the items.
Init ==
    /\ retry_attempts \in 0..MaxAttempts
    /\ retry_min_wait = DefaultRetryMinWait
    /\ retry_max_wait = DefaultRetryMaxWait
    /\ corpus = Items
    /\ call = [c \in Calls |-> IdleCall]
    /\ trimIn = NoTrimIn
    /\ trimOut = NoTrimOut
    /\ app = NoApp

Next == \E c \in MainCalls : CallStep(c)

Spec == Init /\ [][Next]_vars

\* One call on a tenant with any retry configuration, against an empty index.
InitBackoff ==
    /\ retry_attempts \in 0..MaxAttempts
    /\ retry_min_wait \in 0..MaxMinWait
    /\ retry_max_wait \in 0..MaxMaxWait
    /\ corpus = {}
    /\ call = [c \in Calls |-> IdleCall]
    /\ trimIn = NoTrimIn
    /\ trimOut = NoTrimOut
    /\ app = NoApp

SpecBackoff == InitBackoff /\ [][Next]_vars

\* trim_to_token_limit applied to any small text under any small budget.
InitTrim ==
    /\ retry_attempts = MaxAttempts
    /\ retry_min_wait = DefaultRetryMinWait
    /\ retry_max_wait = DefaultRetryMaxWait
    /\ corpus = {}
    /\ call = [c \in Calls |-> IdleCall]
    /\ trimIn \in [text : HarnessTexts, max_tokens : 0..MaxBudget,
                   tiktoken_ok : BOOLEAN, used : {TRUE}]
    /\ trimOut = NoTrimOut
    /\ app = NoApp

NextTrim == ApplyTrim

SpecTrim == InitTrim /\ [][NextTrim]_vars

\* The application starts with any tenants configured, under any
\* environment, and then serves lookups.
InitStartup ==
    /\ retry_attempts = DefaultRetryAttempts
    /\ retry_min_wait = DefaultRetryMinWait
    /\ retry_max_wait = DefaultRetryMaxWait
    /\ corpus = {}
    /\ call = [c \in Calls |-> IdleCall]
    /\ trimIn = NoTrimIn
    /\ trimOut = NoTrimOut
    /\ \E T \in SUBSET Tenants :
       \E cc \in [T -> CfgShapes] :
       \E e \in [openai_ok : BOOLEAN, validate : BOOLEAN,
                 deployment_env : {"dev", "prod"}, check_timeout_ok : BOOLEAN] :
           app = [NoApp EXCEPT !.phase = "boot", !.env = e, !.clients_config = cc,
                               !.tasks = [t \in T |-> NoTask]]

NextStartup ==
    \/ Startup
    \/ \E t \in Tenants : TaskRuns(t)
    \/ \E t \in Tenants : ProbeCompletes(t)
    \/ AwaitResumes
    \/ \E id \in Tenants \cup UnknownIds : Lookup(id)

SpecStartup == InitStartup /\ [][NextStartup]_vars

\* validate_azure_endpoints called on any configuration, with or without
\* an openai_endpoint per tenant.
InitValidate ==
    /\ retry_attempts = DefaultRetryAttempts
    /\ retry_min_wait = DefaultRetryMinWait
    /\ retry_max_wait = DefaultRetryMaxWait
    /\ corpus = {}
    /\ call = [c \in Calls |-> IdleCall]
    /\ trimIn = NoTrimIn
    /\ trimOut = NoTrimOut
    /\ \E T \in SUBSET Tenants :
       \E cc \in [T -> {Cfg("https://search", "search-key", "index", oe, "absent") :
                          oe \in {"", "https://openai"}}] :
       \E ok \in BOOLEAN :
           app = [NoApp EXCEPT !.phase = "direct", !.env.check_timeout_ok = ok,
                               !.clients_config = cc,
                               !.tasks = [t \in T |-> NoTask]]

NextValidate ==
    \/ CallValidator
    \/ \E t \in Tenants : TaskRuns(t)
    \/ \E t \in Tenants : ProbeCompletes(t)
    \/ AwaitResumes

SpecValidate == InitValidate /\ [][NextValidate]_vars

\* Two answer_query calls of one manager run interleaved.
InitConcurrent ==
    /\ retry_attempts \in 1..ConcurrentAttempts
    /\ retry_min_wait = DefaultRetryMinWait
    /\ retry_max_wait = DefaultRetryMaxWait
    /\ corpus = {Item(DocShort)}
    /\ call = [c \in Calls |-> IdleCall]
    /\ trimIn = NoTrimIn
    /\ trimOut = NoTrimOut
    /\ app = NoApp

NextConcurrent == \E c \in Calls : CallStep(c)

SpecConcurrent == InitConcurrent /\ [][NextConcurrent]_vars

\* A call under the assumption that no POST stays in flight for ever (it
\* returns, or else it fails or times out) and that every sleep ends.
SpecFair ==
    /\ Init
    /\ [][Next]_vars
    /\ \A c \in MainCalls : WF_vars(AttemptFails(c)) /\ WF_vars(SleepEnds(c))

(***************************************************************************)
(* Properties.                                                             *)
(***************************************************************************)
StageRank(s) == IF s = "embed" THEN 1 ELSE IF s = "search" THEN 2 ELSE 3
LaterStages(s) == {t \in Stages : StageRank(t) > StageRank(s)}
EarlierStages(s) == {t \in Stages : StageRank(t) < StageRank(s)}

\* the call failed because its running stage ran out of attempts
Exhausted(c) == call[c].phase = "failed" /\ call[c].outcome.type = "RAGError"

\* C1: when a stage fails on its final permitted attempt, what answer_query
\* raises is the last attempt's own failure, the RAGError, unchanged and
\* unwrapped.
C1_LastFailureUnchanged ==
    \A c \in Calls : Exhausted(c) => call[c].error = call[c].outcome

\* C2 as stated: a stage that ran out of attempts made exactly
\* retry_attempts POSTs.
C2_ExactlyMaxAttempts ==
    \A c \in Calls :
        Exhausted(c) => call[c].posts[call[c].stage] = retry_attempts

\* C2, amended: a stage that ran out of attempts made exactly
\* max(1, retry_attempts) POSTs, and no stage ever makes more: the first
\* attempt is made whatever retry_attempts is.
C2_ExactlyMaxAttemptsAtLeastOne ==
    \A c \in Calls :
        /\ Exhausted(c) =>
               call[c].posts[call[c].stage] = Max(1, retry_attempts)
        /\ \A s \in Stages : call[c].posts[s] <= Max(1, retry_attempts)

C2_Witness ==
    \E c \in Calls :
        /\ Exhausted(c)
        /\ call[c].stage = "search"
        /\ retry_attempts >= 3
        /\ call[c].posts["search"] = retry_attempts

\* C3: an attempt that fails with a kind outside the retryable set (a 200
\* response with a malformed body) is not retried: the call fails at once
\* with that very exception, the stage has made no POST after the failing
\* one and slept only before it, so a first attempt failing so is the only
\* attempt, whatever retry_attempts is.
C3_NonRetryableNotRetried ==
    \A c \in Calls :
        call[c].outcome.cause = "malformed" =>
            /\ call[c].phase = "failed"
            /\ call[c].error = call[c].outcome
            /\ call[c].error.wrapped = "none"
            /\ call[c].posts[call[c].stage] = call[c].outcome.attempt
            /\ Len(call[c].sleeps[call[c].stage]) = call[c].outcome.attempt - 1
            /\ call[c].inflight = {}

C3_Witness ==
    \E c \in Calls :
        /\ call[c].phase = "failed"
        /\ call[c].error.cause = "malformed"
        /\ call[c].error.attempt = 1
        /\ call[c].posts[call[c].stage] = 1
        /\ retry_attempts >= 3

\* C4 as stated: the delay between attempt i and attempt i+1 of a stage is
\* min(maxWait, minWait * 2^(i-1)).
C4_DelayScaledByMinWait ==
    \A c \in Calls, s \in Stages :
        \A i \in 1..Len(call[c].sleeps[s]) :
            call[c].sleeps[s][i] =
                Min(retry_max_wait, retry_min_wait * 2^(i - 1))

\* C4, amended: the delay between attempt i and attempt i+1 of a stage is
\* max(minWait, min(maxWait, 2^(i-1))), never negative: minWait is the floor
\* of the delay, not its multiplier.
C4_DelayClampedBetweenBounds ==
    \A c \in Calls, s \in Stages :
        \A i \in 1..Len(call[c].sleeps[s]) :
            LET capped == IF 2^(i - 1) < retry_max_wait
                          THEN 2^(i - 1) ELSE retry_max_wait
                floor == IF retry_min_wait > 0 THEN retry_min_wait ELSE 0
            IN call[c].sleeps[s][i] = IF capped > floor THEN capped ELSE floor

C4_Witness ==
    \E c \in Calls :
        /\ retry_min_wait = 2
        /\ retry_max_wait = 3
        /\ call[c].sleeps["embed"] = <<2, 2>>

\* no attempt of the call has failed so far
NoRetry(c) == \A s \in Stages : call[c].sleeps[s] = <<>>

\* C5: when the embed, search and complete calls each succeed on their
\* first attempt, answer_query returns (the answer of the chat response, the
\* documents of the search response), and each of the three POSTs was made
\* exactly once.
C5_FirstTrySuccessReturnsPair ==
    \A c \in Calls :
        (call[c].phase = "done" /\ NoRetry(c)) =>
            /\ call[c].result.ok
            /\ call[c].result.answer = call[c].reply
            /\ call[c].result.answer \in Answers
            /\ call[c].result.sources = ParseDocs(call[c].hits)
            /\ \A s \in Stages : call[c].posts[s] = 1

C5_Witness ==
    \E c \in Calls :
        /\ call[c].phase = "done"
        /\ NoRetry(c)
        /\ call[c].hits = <<Item(DocShort), Item(DocLong)>>
        /\ call[c].result = [ok |-> TRUE, answer |-> "answered text",
                             sources |-> <<DocShort, DocLong>>]

\* C6: a stage that runs out of attempts fails the whole call, and nothing
\* of a later stage is ever attempted: a failed call has returned nothing
\* and has made no POST of a stage after the one that failed, and a stage
\* is only ever attempted after every earlier stage has returned (the chat
\* completion is never posted for a search that did not return).
C6_FailedStageAbortsCall ==
    \A c \in Calls :
        /\ call[c].phase = "failed" =>
               /\ ~call[c].result.ok
               /\ call[c].inflight = {}
               /\ \A t \in LaterStages(call[c].stage) : call[c].posts[t] = 0
        /\ call[c].phase = "done" => call[c].succeeded = Stages
        /\ \A s \in Stages :
               call[c].posts[s] > 0 => EarlierStages(s) \subseteq call[c].succeeded

C6_Witness ==
    \E c \in Calls :
        /\ Exhausted(c)
        /\ call[c].stage = "embed"
        /\ retry_attempts = 3
        /\ call[c].posts = [s \in Stages |-> IF s = "embed" THEN 3 ELSE 0]

C6_WitnessSearch ==
    \E c \in Calls :
        /\ Exhausted(c)
        /\ call[c].stage = "search"
        /\ call[c].posts["complete"] = 0

\* C7: within one call the stages are strictly sequential: at most one POST
\* is outstanding, it belongs to the running stage, the search is posted
\* only with the vector an embedding attempt of this call returned, and the
\* chat completion only once a search attempt of this call has returned.
C7_StagesStrictlySequential ==
    \A c \in Calls :
        /\ Cardinality(call[c].inflight) <= 1
        /\ call[c].inflight \subseteq {call[c].stage}
        /\ call[c].posts["search"] > 0 => "embed" \in call[c].succeeded
        /\ call[c].posts["complete"] > 0 => "search" \in call[c].succeeded
        /\ call[c].stage = "search" =>
               /\ call[c].embedding \in Embeddings
               /\ call[c].request.vector = call[c].embedding

C7_Witness ==
    \E c \in Calls :
        /\ Running(c, "complete")
        /\ call[c].inflight = {"complete"}
        /\ call[c].posts["embed"] = 2
        /\ call[c].posts["search"] = 2

\* C8: when the search returns zero documents, answer_query goes on: the
\* chat completion is posted with the literal context "No relevant
\* documents found.", only the completion stage can still fail the call,
\* and the sources returned are the empty sequence.
C8_EmptyRetrievalUsesLiteral ==
    \A c \in Calls :
        ("search" \in call[c].succeeded /\ call[c].hits = <<>>) =>
            /\ call[c].stage = "complete"
            /\ call[c].posts["complete"] >= 1
            /\ call[c].request.context = NoDocsContext
            /\ RLen(call[c].request.context) = 28
            /\ call[c].phase = "done" =>
                   call[c].result.ok /\ call[c].result.sources = <<>>

C8_Witness ==
    \E c \in Calls :
        /\ call[c].phase = "done"
        /\ call[c].hits = <<>>
        /\ call[c].request.context = NoDocsContext
        /\ call[c].result.sources = <<>>

\* the completion request of the call carries a trimmed context
Trimmed(c) ==
    /\ call[c].request.stage = "complete"
    /\ call[c].request.context # BuildContext(ParseDocs(call[c].hits))

\* C9: the sources a call returns are exactly the documents of the search
\* response, same elements in the same order, whether or not the context
\* sent to the completion was trimmed; trimming changes only the context
\* of the completion request, never the documents the call holds.
C9_SourcesAreUntrimmedDocs ==
    \A c \in Calls :
        /\ call[c].phase = "done" =>
               /\ call[c].result.sources = ParseDocs(call[c].hits)
               /\ Len(call[c].result.sources) = Len(call[c].hits)
        /\ Trimmed(c) => call[c].docs = ParseDocs(call[c].hits)

C9_Witness ==
    \E c \in Calls :
        /\ call[c].phase = "done"
        /\ Trimmed(c)
        /\ call[c].hits = <<Item(DocLong), Item(DocShort)>>
        /\ call[c].result.sources = <<DocLong, DocShort>>

\* C10: for every text T and budget B with the estimated token count of T
\* at most B, trim_to_token_limit(T, B) returns T unchanged.
C10_IdentityBelowBudget ==
    (trimOut.returned
        /\ EstimatedTokens(trimIn.text, trimIn.tiktoken_ok) <= trimIn.max_tokens)
    => trimOut.text = trimIn.text

C10_Witness ==
    /\ trimOut.returned
    /\ ~trimIn.tiktoken_ok
    /\ RLen(trimIn.text) = 3
    /\ trimIn.max_tokens = 1
    /\ trimOut.text = trimIn.text

C10_WitnessTokens ==
    /\ trimOut.returned
    /\ trimIn.tiktoken_ok
    /\ RLen(trimIn.text) > trimIn.max_tokens
    /\ RLen(Encode(trimIn.text)) = trimIn.max_tokens
    /\ trimOut.text = trimIn.text

\* C11: for every text T and budget B >= 0 with the estimated token count
\* of T above B, trim_to_token_limit(T, B) returns a suffix of T whose
\* estimated token count is at most B (with the character fallback, at most
\* 4 * B characters), the budget B = 0 included.
C11_SuffixWithinBudget ==
    (trimOut.returned
        /\ trimIn.max_tokens >= 0
        /\ EstimatedTokens(trimIn.text, trimIn.tiktoken_ok) > trimIn.max_tokens)
    => /\ IsSuffix(trimOut.text, trimIn.text)
       /\ EstimatedTokens(trimOut.text, trimIn.tiktoken_ok) <= trimIn.max_tokens
       /\ ~trimIn.tiktoken_ok =>
              RLen(trimOut.text) <= CharsPerToken * trimIn.max_tokens

\* C12: no RAGManager with an empty required field (endpoint, key, index
\* or deployment) ever exists in the registry: construction for such a
\* tenant fails, so the missing field is never first met during a call.
C12_NoManagerWithEmptyField ==
    \A t \in DOMAIN app.rag_managers :
        \A f \in RequiredFields : app.rag_managers[t][f] # ""

\* C13: while the application serves, a lookup of an id that is not in the
\* registry yields 404 "Client not found", a lookup of a registered id yields
\* its manager, and no lookup changes the registry.
C13_LookupNeverCreates ==
    [][app.phase = "serving" =>
          /\ app'.rag_managers = app.rag_managers
          /\ (app'.lookup.id \notin DOMAIN app.rag_managers
                 => /\ app'.lookup.status = 404
                    /\ app'.lookup.detail = "Client not found")
          /\ (app'.lookup.id \in DOMAIN app.rag_managers
                 => app'.lookup.status = 200)]_vars

\* a configured tenant whose construction failed was looked up: 404, and it
\* is still not registered
C13_Witness ==
    /\ app.phase = "serving"
    /\ app.lookup.id = "A"
    /\ app.lookup.status = 404
    /\ "A" \in DOMAIN app.clients_config
    /\ "A" \notin DOMAIN app.rag_managers
    /\ "B" \in DOMAIN app.rag_managers

\* C14: when validate_azure_endpoints returns, its report has exactly one
\* boolean per configured tenant, true iff the tenant's probe completed with
\* status 200, 401 or 403; any other status, a timeout, a connection error
\* and a missing endpoint give false.
C14_ReportOneBooleanPerTenant ==
    app.phase = "returned" =>
        /\ DOMAIN app.results = DOMAIN app.clients_config
        /\ \A t \in DOMAIN app.results :
               /\ app.results[t] \in BOOLEAN
               /\ app.results[t] <=>
                      /\ app.tasks[t].outcome.kind = "status"
                      /\ app.tasks[t].outcome.status \in {200, 401, 403}

\* A -> 401 and B -> timeout yields {A: true, B: false}
C14_Witness ==
    /\ app.phase = "returned"
    /\ DOMAIN app.results = {"A", "B"}
    /\ app.tasks["A"].outcome = Outcome("status", 401)
    /\ app.tasks["B"].outcome = Outcome("timeout", 0)
    /\ app.results["A"]
    /\ ~app.results["B"]

\* a tenant without an openai_endpoint is reported false, no request made
C14_WitnessNoEndpoint ==
    /\ app.phase = "returned"
    /\ "A" \in DOMAIN app.results
    /\ app.tasks["A"].outcome.kind = "no_endpoint"
    /\ ~app.results["A"]

StartupOver == app.phase \in {"serving", "crashed"}

SomeUnreachable == \E t \in DOMAIN app.results : ~app.results[t]

NoProbeIssued == \A t \in DOMAIN app.tasks : app.tasks[t].state = "none"

\* C15: given the global OpenAI configuration, startup with validation
\* enabled fails iff the deployment is strict and at least one tenant is
\* reported unreachable; a lenient deployment always serves; with validation
\* disabled no probe is issued.
C15_FailsIffStrictAndUnreachable ==
    (StartupOver /\ app.env.openai_ok) =>
        /\ app.env.validate =>
               (app.phase = "crashed"
                    <=> (app.env.deployment_env = "prod" /\ SomeUnreachable))
        /\ app.env.deployment_env # "prod" => app.phase = "serving"
        /\ ~app.env.validate => NoProbeIssued

\* C15, amended: given the global OpenAI configuration, startup with
\* validation enabled fails iff the deployment is strict and either at least
\* one tenant is reported unreachable or the validator itself raised; a
\* lenient deployment always serves; with validation disabled no probe is
\* issued and startup serves.
C15_FailsIffStrictAndUnreachableOrError ==
    (StartupOver /\ app.env.openai_ok) =>
        /\ app.env.validate =>
               (app.phase = "crashed"
                    <=> /\ app.env.deployment_env = "prod"
                        /\ SomeUnreachable \/ ~app.env.check_timeout_ok)
        /\ app.env.deployment_env # "prod" => app.phase = "serving"
        /\ ~app.env.validate => NoProbeIssued /\ app.phase = "serving"

\* a lenient deployment serves with a tenant reported unreachable
C15_Witness ==
    /\ app.phase = "serving"
    /\ app.env.validate
    /\ app.env.deployment_env = "dev"
    /\ SomeUnreachable

\* a strict deployment fails on an unreachable tenant
C15_WitnessStrict ==
    /\ app.phase = "crashed"
    /\ app.env.validate
    /\ app.env.deployment_env = "prod"
    /\ app.env.check_timeout_ok
    /\ SomeUnreachable

\* C16: a search result item without a content field becomes the empty
\* string at the same position of the returned documents, the items with
\* content are returned unchanged at theirs, and the call goes on to the
\* completion stage.
C16_MissingContentIsEmptyString ==
    \A c \in MainCalls :
        "search" \in call[c].succeeded =>
            /\ Len(call[c].docs) = Len(call[c].hits)
            /\ \A i \in 1..Len(call[c].hits) :
                   /\ ~call[c].hits[i].has_content => call[c].docs[i] = <<>>
                   /\ call[c].hits[i].has_content =>
                          call[c].docs[i] = call[c].hits[i].content
            /\ call[c].posts["complete"] >= 1
            /\ call[c].phase = "done" => call[c].result.sources = call[c].docs

C16_Witness ==
    \E c \in MainCalls :
        /\ call[c].phase = "done"
        /\ call[c].hits = <<ItemNoContent, Item(DocShort)>>
        /\ call[c].result.sources = <<<<>>, DocShort>>

\* C17: a stage that has made m attempts has slept m-1 times between them,
\* or m times while it sleeps before attempt m+1; a call that failed slept
\* nothing after its last attempt.
C17_NoWaitAfterFinalAttempt ==
    \A c \in MainCalls : \A s \in Stages :
        LET m == call[c].posts[s]
            waits == Len(call[c].sleeps[s])
        IN IF call[c].phase = "sleep" /\ call[c].stage = s
           THEN waits = m
           ELSE waits = Max(0, m - 1)

C17_Witness ==
    \E c \in MainCalls :
        /\ Exhausted(c)
        /\ call[c].posts[call[c].stage] = 3
        /\ Len(call[c].sleeps[call[c].stage]) = 2

\* C18: once the construction loop of startup is over, the registry's keys
\* are exactly the tenants whose construction did not raise, the others are
\* logged, and no construction failure makes startup fail.
C18_RegistryIsConstructedTenants ==
    (app.phase \in {"validating", "serving", "crashed"} /\ app.env.openai_ok) =>
        /\ DOMAIN app.rag_managers =
               {t \in DOMAIN app.clients_config :
                    app.clients_config[t].retry_attempts # "three"}
        /\ app.failed_init =
               {t \in DOMAIN app.clients_config :
                    app.clients_config[t].retry_attempts = "three"}
        /\ (~app.env.validate => app.phase = "serving")

\* the first tenant's construction raised, the second is registered
C18_Witness ==
    /\ app.phase = "serving"
    /\ ~app.env.validate
    /\ app.failed_init = {"A"}
    /\ DOMAIN app.rag_managers = {"B"}

\* C19: once the validator awaits a result, every tenant's probe has been
\* started; a probe that waits for its response can complete whatever the
\* other probes did; each entry of the report follows from the tenant's
\* own outcome.
C19_ProbesConcurrentIndependent ==
    /\ (app.phase = "validating" \/ app.results # EmptyDict) =>
           \A t \in DOMAIN app.clients_config : app.tasks[t].state # "none"
    /\ \A t \in Tenants :
           (/\ app.phase = "validating"
            /\ t \in DOMAIN app.tasks
            /\ app.tasks[t].state = "requesting") => ENABLED ProbeCompletes(t)
    /\ \A t \in DOMAIN app.results :
           app.results[t] = (/\ app.tasks[t].outcome.kind = "status"
                             /\ app.tasks[t].outcome.status \in {200, 401, 403})

\* B's probe completed with 200 after A's, awaited first, timed out, and
\* B's entry is true
C19_Witness ==
    /\ app.phase = "returned"
    /\ DOMAIN app.results = {"A", "B"}
    /\ app.tasks["A"].outcome.kind \in {"timeout", "connection_error"}
    /\ app.tasks["B"].outcome = Outcome("status", 200)
    /\ app.results["B"]

\* B's probe is done while A's, the one awaited, has not answered
C19_WitnessOverlap ==
    /\ app.phase = "validating"
    /\ app.pending = <<"A", "B">>
    /\ app.tasks["A"].state = "requesting"
    /\ app.tasks["B"].state = "done"

\* C20: every POST runs under the full timeout configured for its stage, and
\* is counted in its own stage's attempts only, whatever timed out before;
\* an attempt that timed out is a RAGError, and fails the call only when no
\* attempt of its stage remains.
C20_TimeoutPerAttempt ==
    \A c \in MainCalls :
        /\ call[c].phase = "inflight" =>
               /\ call[c].timeout =
                      (IF call[c].stage = "embed" THEN EmbeddingTimeout
                       ELSE IF call[c].stage = "search" THEN SearchTimeout
                       ELSE ChatTimeout)
               /\ call[c].attempt_number = call[c].posts[call[c].stage]
        /\ \A s \in Stages : call[c].expired[s] <= call[c].posts[s]
        /\ call[c].outcome.cause = "timeout" =>
               /\ call[c].outcome.type = "RAGError"
               /\ call[c].phase = "failed" =>
                      call[c].outcome.attempt >= retry_attempts

\* the embedding timed out twice and the search once, and the completion
\* is at its first attempt under its full timeout
C20_Witness ==
    \E c \in MainCalls :
        /\ call[c].phase = "inflight"
        /\ call[c].stage = "complete"
        /\ call[c].expired["embed"] = 2
        /\ call[c].expired["search"] = 1
        /\ call[c].attempt_number = 1
        /\ call[c].timeout = ChatTimeout

\* C21: when answer_query fails because a stage ran out of attempts,
\* chat_with_client answers 502 with the cause of the last failure as its
\* detail; 500 "Internal server error" is answered only for errors that are
\* no stage failure.
C21_ExhaustionReports502 ==
    \A c \in MainCalls :
        /\ Exhausted(c) =>
               /\ call[c].response.status = 502
               /\ call[c].response.detail = call[c].outcome.cause
        /\ call[c].response.status = 500 => call[c].outcome.type # "RAGError"

\* C22: under every interleaving of two calls, each call counts its
\* attempts from one in each of its stages, makes the attempts its own
\* failures call for, searches with its own embedding, and returns the
\* answer and the documents of its own responses.
C22_CallsIndependent ==
    \A c \in Calls :
        /\ call[c].phase = "inflight" =>
               call[c].attempt_number = call[c].posts[call[c].stage]
        /\ \A s \in Stages :
               /\ call[c].posts[s] <= Max(1, retry_attempts)
               /\ Len(call[c].sleeps[s]) <= call[c].posts[s]
        /\ Exhausted(c) =>
               call[c].posts[call[c].stage] = Max(1, retry_attempts)
        /\ (call[c].phase = "inflight" /\ call[c].stage = "search") =>
               call[c].request.vector = call[c].embedding
        /\ call[c].phase = "done" =>
               /\ call[c].result.answer = call[c].reply
               /\ Len(call[c].result.sources) = Len(call[c].hits)
               /\ \A i \in 1..Len(call[c].hits) :
                      call[c].result.sources[i] = call[c].hits[i].content
               /\ \A s \in Stages :
                      call[c].posts[s] = Len(call[c].sleeps[s]) + 1

\* one call waits to retry its embedding while the other, without a retry,
\* is at the first attempt of its completion
C22_Witness ==
    /\ call["c1"].phase = "sleep"
    /\ call["c1"].stage = "embed"
    /\ call["c1"].attempt_number = 2
    /\ call["c2"].phase = "inflight"
    /\ call["c2"].stage = "complete"
    /\ call["c2"].attempt_number = 1
    /\ NoRetry("c2")

\* one call failed out of attempts, the other returned without a retry
C22_WitnessOutcomes ==
    /\ Exhausted("c1")
    /\ call["c1"].posts["embed"] = 2
    /\ call["c2"].phase = "done"
    /\ call["c2"].result.sources = <<DocShort>>
    /\ NoRetry("c2")

Terminated(c) == call[c].phase \in {"done", "failed"}

TotalPosts(c) ==
    call[c].posts["embed"] + call[c].posts["search"] + call[c].posts["complete"]

\* C23 as stated: a call that was made eventually is done or failed, and it
\* makes at most retry_attempts POSTs per stage, at most 3 * retry_attempts
\* in all.
C23_TerminatesWithinRetryAttempts ==
    /\ [](\A c \in MainCalls :
              /\ \A s \in Stages : call[c].posts[s] <= retry_attempts
              /\ TotalPosts(c) <= 3 * retry_attempts)
    /\ \A c \in MainCalls : (call[c].phase # "idle") ~> Terminated(c)

\* C23, amended: a call that was made eventually is done or failed, and it
\* makes at most max(1, retry_attempts) POSTs per stage, at most
\* 3 * max(1, retry_attempts) in all.
C23_TerminatesWithinAtLeastOneAttempt ==
    /\ [](\A c \in MainCalls :
              /\ \A s \in Stages : call[c].posts[s] <= Max(1, retry_attempts)
              /\ TotalPosts(c) <= 3 * Max(1, retry_attempts))
    /\ \A c \in MainCalls : (call[c].phase # "idle") ~> Terminated(c)

\* every stage used all its attempts and the call is done
C23_Witness ==
    \E c \in MainCalls :
        /\ call[c].phase = "done"
        /\ retry_attempts >= 2
        /\ \A s \in Stages : call[c].posts[s] = retry_attempts
        /\ TotalPosts(c) = 3 * retry_attempts

\* C24: a stage whose attempts 1..k-1 failed with a retryable kind and whose
\* attempt k succeeded, k within the attempts allowed, made exactly k POSTs
\* and none after the success, and returned the result of attempt k: the
\* call goes on with it, and a call whose completion succeeded is done with
\* the reply of that attempt, no failure reported.
C24_SuccessAfterRetries ==
    \A c \in MainCalls : \A s \in call[c].succeeded :
        /\ call[c].posts[s] = Len(call[c].sleeps[s]) + 1
        /\ call[c].posts[s] <= Max(1, retry_attempts)
        /\ s \notin call[c].inflight
        /\ call[c].stage # s \/ s = "complete"
        /\ s = "embed" => call[c].request.stage \in {"search", "complete"}
        /\ s = "complete" =>
               /\ call[c].phase = "done"
               /\ call[c].result.ok
               /\ call[c].result.answer = call[c].reply
               /\ call[c].error = NoExc
               /\ call[c].outcome = NoExc
               /\ call[c].response.status = 200

\* the completion failed twice and succeeded at the third, last attempt
C24_Witness ==
    \E c \in MainCalls :
        /\ call[c].phase = "done"
        /\ retry_attempts = 3
        /\ call[c].posts["complete"] = 3
        /\ Len(call[c].sleeps["complete"]) = 2
        /\ call[c].result.ok

====
